---- MODULE Spec2Model ----
(***************************************************************************)
(* Model of the sync engine of src/scraper.py: the Target work queue       *)
(* (get_target_users), the batch export with its status commits and its    *)
(* reconciliation against the main worksheet                               *)
(* (export_to_google_sheets_with_rate_limiting), and the driver loop       *)
(* (main).  Every remote call of the Google Sheets client is one step, so  *)
(* that the process can stop between any two remote calls.                 *)
(*                                                                         *)
(* The 16 columns of the main worksheet are projected on 7:                *)
(*   DATE (DATE and TIME, the capture stamp), NICKNAME, TAGS,              *)
(*   CITY (for the compared columns 4..8), FOLLOWERS (for 9..12),          *)
(*   PIMAGE (for the uncompared columns 13, 14), INTRO (column 15).        *)
(* The Target worksheet has its 4 columns USERNAME, STATUS, LAST_SCRAPED,  *)
(* NOTES.                                                                  *)
(*                                                                         *)
(* Time is kept in tenths of a second.  track_api_request and the sleeps   *)
(* change nothing but the time and the request log, so Spec, SpecRerun and *)
(* SpecRecon observe the run without its clock (timed = FALSE) and         *)
(* SpecRate observes it with its clock and a configured request limit.     *)
(*                                                                         *)
(* SpecLoad, SpecLimiter and SpecRecon call get_target_users,              *)
(* track_api_request and the export on their own; SpecInterrupt is a run   *)
(* in which an interrupt can be caught inside scrape_profile.              *)
(***************************************************************************)
EXTENDS Integers, Sequences, FiniteSets, TLC

\* ------------------------------------------------------------------ bounds

\* Rows of the Target worksheet below its header.
MaxQueue == 4
\* Process runs (the first one and the re-runs after a stop).
MaxRuns == 2
\* Capture stamps 1..MaxTime a scrape can carry.
MaxTime == 2
\* Records in a batch handed to the export on its own.
MaxBatch == 2

\* Remote calls that fail in one run.
MaxFaults == 2

\* The largest configured max_requests_per_minute of the timed runs.
MaxLimit == 3
\* Requests made to the rate limiter on its own.
MaxCalls == 4
\* Rows below the header of a Target worksheet loaded on its own.
MaxRows == 2
MaxTagRows == 2
MaxUsers == 11

\* GOOGLE_API_RATE_LIMIT['batch_size']
batch_size == 3

\* GOOGLE_API_RATE_LIMIT['max_requests_per_minute'] as shipped.
max_requests_per_minute == 50

\* Times are in tenths of a second.
\* GOOGLE_API_RATE_LIMIT['retry_delay'], 65 s; also the literal waits of 65 s.
retry_delay == 650
\* GOOGLE_API_RATE_LIMIT['request_delay'], 1.2 s.
request_delay == 12
\* The window of track_api_request, 60 s.
window == 600
\* timedelta.seconds wraps at one day.
day == 864000
\* MIN_DELAY and MAX_DELAY, 1 s and 2 s.
MIN_DELAY == 10
MAX_DELAY == 20
\* The pause between batches, 10 s.
batch_pause == 100
\* The wait inside scrape_profile before the posts are read, 1 s.
post_delay == 10

\* ------------------------------------------------------------ string helpers

\* str.strip() on the strings of the model.
Strip(s) ==
    CASE s = " a" -> "a"
      [] s = " bio1" -> "bio1"
      [] s = " Followers" -> "Followers"
      [] s = " PENDING" -> "PENDING"
      [] s = " " -> ""
      [] s = "pending " -> "pending"
      [] OTHER -> s

KeepCase(s) == s

\* str.upper() on the strings of the model.
Upper(s) ==
    CASE s = "Pending" -> "PENDING"
      [] s = "pending" -> "PENDING"
      [] s = "Completed" -> "COMPLETED"
      [] s = "Done" -> "DONE"
      [] s = "Username" -> "USERNAME"
      [] s = "Target Username" -> "TARGET USERNAME"
      [] s = "Status" -> "STATUS"
      [] s = "Name" -> "NAME"
      [] OTHER -> s

placeholder_texts == {"not set", "no set", "no city", "none", "n/a", "null"}

\* clean_text: placeholders become the empty string.
clean_text(text) ==
    IF text = "" THEN ""
    ELSE IF Strip(text) \in placeholder_texts THEN "" ELSE Strip(text)

\* ", ".join(tags)
RECURSIVE Join(_)
Join(tags) ==
    IF tags = << >> THEN ""
    ELSE IF Len(tags) = 1 THEN tags[1]
    ELSE tags[1] \o ", " \o Join(Tail(tags))

\* get_tags_for_nickname
get_tags_for_nickname(nickname, mapping) ==
    IF nickname \notin DOMAIN mapping THEN ""
    ELSE Join(mapping[nickname])

DefaultIcon(header) == "(plug) " \o Strip(header)

\* TAGS_CONFIG: the display names of the known headers (the icon of the
\* source is written as a word in brackets).
TAGS_CONFIG ==
    [h \in {"Following", "Followers", "Bookmark", "Pending"} |->
        CASE h = "Following" -> "(link) Following"
          [] h = "Followers" -> "(star) Followers"
          [] h = "Bookmark" -> "(book) Bookmark"
          [] h = "Pending" -> "(hourglass) Pending"]

\* Line 643: TAGS_CONFIG.get(header.strip(), default-decorated header).
TagIcon(header) ==
    IF Strip(header) \in DOMAIN TAGS_CONFIG THEN TAGS_CONFIG[Strip(header)]
    ELSE "(plug) " \o Strip(header)

\* Lines 648-650: the icon is appended to the list of the nickname.
AddTag(mapping, nickname, icon) ==
    IF nickname \in DOMAIN mapping
    THEN [mapping EXCEPT ![nickname] = Append(@, icon)]
    ELSE [n \in DOMAIN mapping \cup {nickname} |->
            IF n = nickname THEN <<icon>> ELSE mapping[n]]

\* Lines 645-650: the data rows from r on, in one column.
RECURSIVE TagColumn(_, _, _, _)
TagColumn(mapping, tags_data, col_index, r) ==
    IF r > Len(tags_data) THEN mapping
    ELSE LET row == tags_data[r]
             found == col_index <= Len(row) /\ Strip(row[col_index]) # ""
         IN  TagColumn(IF found
                       THEN AddTag(mapping, Strip(row[col_index]), TagIcon(tags_data[1][col_index]))
                       ELSE mapping,
                       tags_data, col_index, r + 1)

\* Lines 641-650: the columns from col_index on; a column whose header is
\* blank is skipped.
RECURSIVE TagColumns(_, _, _)
TagColumns(mapping, tags_data, col_index) ==
    IF col_index > Len(tags_data[1]) THEN mapping
    ELSE TagColumns(IF Strip(tags_data[1][col_index]) # ""
                    THEN TagColumn(mapping, tags_data, col_index, 2)
                    ELSE mapping,
                    tags_data, col_index + 1)

\* Lines 634-654: the mapping built from the cells of the Tags worksheet.
get_tags_mapping(tags_data) ==
    IF tags_data = << >> THEN << >>
    ELSE TagColumns(<< >>, tags_data, 1)

\* ------------------------------------------------------------------- domains

Users == {"a", "b", "c"}

\* The Tags worksheets of the runs: an empty one and one that lists "a"
\* under Followers.
EmptyTags == << >>
FollowerTags == <<<<"Followers">>, <<"a">>>>
TagMaps == {EmptyTags, FollowerTags}

\* What scrape_profile can return for a nickname at capture stamp t.
Profile(t, n, city, followers) ==
    [DATE |-> t, NICKNAME |-> n, TAGS |-> "", CITY |-> city,
     FOLLOWERS |-> followers, PIMAGE |-> "", INTRO |-> ""]

ScrapedProfiles(t, n) == {Profile(t, n, "Lahore", "120")}

\* The header row the Target worksheet is documented with (line 331).
TargetHeaders == <<"USERNAME", "STATUS">>

\* A row of the Target worksheet.
TargetRow(u, st, ts, note) ==
    [username |-> u, status |-> st, last_scraped |-> ts, notes |-> note]

\* ----------------------------------------------------------------- variables

VARIABLES
    queue,              \* Target worksheet: its data rows (row i is sheet row i + 1)
    sheet_header,       \* main worksheet: TRUE when row 1 holds the headers
    sheet,              \* main worksheet: its data rows (row i is sheet row i + 1)
    tags_sheet,         \* Tags worksheet: its rows of cells, the header row first
    clock,              \* the wall clock, in capture stamps
    faults,             \* remote calls that failed in this run
    limit,              \* GOOGLE_API_RATE_LIMIT['max_requests_per_minute'] as configured
    timed,              \* TRUE when the run is observed with its clock
    now,                \* the time, in tenths of a second
    api_requests,       \* track_api_request: the times of the tracked requests
    run,                \* number of the process run
    pc,                 \* position of the process
    caller,             \* who called the export: "loop", "final" or "harness"
    tags_mapping,       \* main: tags_mapping
    target_users,       \* main: target_users
    idx,                \* main: position of the for loop in target_users
    scraped_profiles,   \* main: scraped_profiles, the export's profiles_batch
    target_updates,     \* main: target_updates, the export's target_updates
    j,                  \* export: position in target_updates
    k,                  \* export: position in profiles_batch
    existing_rows,      \* export: existing_rows, nickname -> row_index and data
    ret,                \* export: the value returned
    calls,              \* harness: number of export calls made
    \* history variables, read by the properties only
    issued,             \* Target rows whose status write was issued in this run
    commit_log,         \* rows of the status writes issued in this run, in order
    stats,              \* ScraperStats: new_profiles and updated_profiles
    tags_failed,        \* TRUE when get_tags_mapping failed in this run
    written,            \* rows appended to and updated in the main worksheet in this run
    committed,          \* Target rows whose status write was applied in this run
    failed_rows,        \* Target rows whose scrape failed in this run
    synced,             \* nicknames written to, or found unchanged in, the main worksheet in this run
    scrape_log,         \* the items handed to scrape_profile in this run, in order
    lost,               \* Target rows loaded by the previous run that stopped before their status write
    sheet0,             \* the main worksheet's data rows when the export was called
    nwrites,            \* row updates and row appends issued by the current export call
    exhausted,          \* calls of the current export whose retry failed as well
    interrupted,        \* an interrupt of this run was caught inside scrape_profile
    untracked,          \* remote calls not preceded by exactly one track_api_request
    target_headers,     \* the first two cells of the header row of the Target worksheet
    format_calls,       \* worksheet.format calls issued: <<row_index, column>>
    revision,           \* the source file of the earlier revision that runs, if one does
    online_users,       \* earlier revisions: the list get_online_users returned
    current,            \* earlier revisions: position of the main loop in online_users
    scraped,            \* earlier revisions: scraped_profiles of main
    profiles_batch,     \* earlier revisions: the argument of the running export call
    final,              \* earlier revisions: TRUE when the export is the one after the loop
    exports,            \* earlier revisions: the arguments of the export calls so far
    count_header,       \* seen-count worksheet: TRUE when row 1 holds the headers
    count_sheet,        \* seen-count worksheet: its data rows (row i is sheet row i + 1)
    existing_nicks,     \* export of an earlier revision: the nicknames it knows, in row order
    position,           \* export of an earlier revision: index of the next profile
    call_times          \* the times of the remote calls of the last window

store == <<queue, sheet_header, sheet, tags_sheet, clock>>
env == <<faults>>
revisions == <<revision, online_users, current, scraped, profiles_batch, final, exports,
               count_header, count_sheet, existing_nicks, position>>
config == <<limit, timed, target_headers, format_calls, revisions>>
timing == <<now, api_requests, call_times, untracked>>
control == <<run, pc, caller, calls>>
mainvars == <<tags_mapping, target_users, idx, scraped_profiles, target_updates>>
exportvars == <<j, k, existing_rows, ret>>
history == <<issued, commit_log, stats, written, tags_failed, committed, failed_rows, synced, scrape_log, lost, interrupted, sheet0, nwrites, exhausted>>
vars == <<store, env, config, timing, control, mainvars, exportvars, history>>

\* ------------------------------------------------------------ rate limiter
\* The clock, the log of track_api_request and the remote calls as one value.

\* tracks counts the calls of track_api_request since the last remote call.
Timing ==
    [now |-> now, log |-> api_requests, calls |-> call_times,
     tracks |-> 0, untracked |-> untracked]

Recent(times, t) == SelectSeq(times, LAMBDA r : ((t - r) % day) < window)

track_until_oldest_leaves(t) ==
    LET recent == Recent(t.log, t.now)
        wake == recent[1] + window
    IN  IF Len(recent) >= limit
        THEN [t EXCEPT !.now = wake, !.log = Append(Tail(recent), wake),
                       !.tracks = t.tracks + 1]
        ELSE [t EXCEPT !.log = Append(recent, t.now), !.tracks = t.tracks + 1]

\* track_api_request: the requests of the last minute are kept, this one is
\* added, and when the log then holds the limit the process sleeps
\* retry_delay and the log is emptied.
track_api_request(t) ==
    LET logged == Append(Recent(t.log, t.now), t.now)
    IN  IF Len(logged) >= limit
        THEN [t EXCEPT !.now = t.now + retry_delay, !.log = << >>,
                       !.tracks = t.tracks + 1]
        ELSE [t EXCEPT !.log = logged, !.tracks = t.tracks + 1]

\* The calls of the window that ends at time t.
CallsInWindow(times, t) == SelectSeq(times, LAMBDA c : t - c < window)

\* A remote call is issued at the current time.
RemoteCall(t) ==
    [t EXCEPT !.calls = Append(CallsInWindow(t.calls, t.now), t.now),
              !.untracked = IF t.tracks = 1 THEN t.untracked ELSE t.untracked + 1,
              !.tracks = 0]

\* time.sleep
Sleep(t, d) == [t EXCEPT !.now = t.now + d]

\* The process advances to timing t; a run observed without its clock keeps
\* no times.
Elapse(t) ==
    IF timed
    THEN /\ now' = t.now /\ api_requests' = t.log /\ call_times' = t.calls
         /\ untracked' = t.untracked
    ELSE UNCHANGED timing

\* ------------------------------------------------------------- Target queue

\* get_target_users: the rows with a username and status PENDING, in row
\* order, each with its 1-based sheet row.
RECURSIVE PendingFrom(_, _)
PendingFrom(target_data, i) ==
    IF i > Len(target_data) THEN << >>
    ELSE LET username == Strip(target_data[i].username)
             status == Upper(Strip(target_data[i].status))
             rest == PendingFrom(target_data, i + 1)
         IN  IF username # "" /\ status = "PENDING"
             THEN <<[username |-> username, row_index |-> i + 1, status |-> status]>> \o rest
             ELSE rest

\* Lines 329-332: the substring tests on the header row.
HeadersOk(headers) ==
    /\ Upper(headers[1]) \in {"USERNAME", "TARGET USERNAME"}
    /\ Upper(headers[2]) \in {"STATUS", "SCRAPE STATUS"}

\* headers is the first row of the worksheet, target_data the rows below it.
get_target_users(headers, target_data) ==
    IF HeadersOk(headers) THEN PendingFrom(target_data, 1) ELSE << >>

StampAlways(update, stamp) ==
    [status |-> update.status, last_scraped |-> ToString(stamp), notes |-> update.notes]

\* The row of the Target worksheet a status update writes: B..D of row_idx.
StatusValues(update, stamp) ==
    [status |-> update.status,
     last_scraped |-> IF Upper(update.status) = "COMPLETED" THEN ToString(stamp) ELSE "",
     notes |-> update.notes]

update_row_from_A(target_data, update, stamp) ==
    LET v == StatusValues(update, stamp)
        r == update.row_index - 1
    IN  [target_data EXCEPT ![r] = [username |-> v.status,
                                    status |-> v.last_scraped,
                                    last_scraped |-> v.notes,
                                    notes |-> target_data[r].notes]]

update_row_below(target_data, update, stamp) ==
    LET v == StatusValues(update, stamp)
        r == IF update.row_index <= Len(target_data) THEN update.row_index
             ELSE Len(target_data)
    IN  [target_data EXCEPT ![r] = [username |-> target_data[r].username,
                                    status |-> v.status,
                                    last_scraped |-> v.last_scraped,
                                    notes |-> v.notes]]

update_target_row(target_data, update, stamp) ==
    LET v == StatusValues(update, stamp)
        r == update.row_index - 1
    IN  [target_data EXCEPT ![r] = [username |-> target_data[r].username,
                                    status |-> v.status,
                                    last_scraped |-> v.last_scraped,
                                    notes |-> v.notes]]

\* --------------------------------------------------------------- reconciler

\* existing_rows: nickname -> sheet row and data; a later row of the same
\* nickname replaces an earlier one.
LastRowOf(data, nickname) ==
    CHOOSE i \in 1..Len(data) :
        /\ Strip(data[i].NICKNAME) = nickname
        /\ \A m \in 1..Len(data) : Strip(data[m].NICKNAME) = nickname => m <= i

ExistingRows(data) ==
    LET nicknames == {Strip(data[i].NICKNAME) : i \in 1..Len(data)} \ {""}
    IN  [n \in nicknames |->
            [row_index |-> LastRowOf(data, n) + 1, data |-> data[LastRowOf(data, n)]]]

\* The row built from a profile: its columns in sheet order, the tags looked up.
MakeRow(profile, mapping) ==
    LET nickname == Strip(profile.NICKNAME)
    IN  [DATE |-> profile.DATE,
         NICKNAME |-> nickname,
         TAGS |-> get_tags_for_nickname(nickname, mapping),
         CITY |-> profile.CITY,
         FOLLOWERS |-> profile.FOLLOWERS,
         PIMAGE |-> profile.PIMAGE,
         INTRO |-> clean_text(profile.INTRO)]

key_fields_with_image == {"CITY", "FOLLOWERS", "PIMAGE", "INTRO"}

\* The compared columns (4..12 and 15 of the sheet).
key_fields == {"CITY", "FOLLOWERS", "INTRO"}

NeedsUpdateWithDate(existing_data_row, row) ==
    \/ \E f \in key_fields : existing_data_row[f] # row[f] /\ row[f] # ""
    \/ existing_data_row.DATE # row.DATE
    \/ existing_data_row.TAGS # row.TAGS

\* needs_update: a compared column differs and its new value is not empty, or
\* the tags differ.
NeedsUpdate(existing_data_row, row) ==
    \/ \E f \in key_fields : existing_data_row[f] # row[f] /\ row[f] # ""
    \/ existing_data_row.TAGS # row.TAGS

\* ScraperStats.__init__: the counters of the summary.
ScraperStats == [new_profiles |-> 0, updated_profiles |-> 0]

\* Lines 818-819 and 845-846: the counter of the summary is raised after the
\* first call of a write; the retry (lines 829 and 857) raises the local
\* count only.
CountWrite(s, known, o) ==
    IF o # "ok" THEN s
    ELSE IF known THEN [s EXCEPT !.updated_profiles = @ + 1]
         ELSE [s EXCEPT !.new_profiles = @ + 1]

\* worksheet.update('A{row_index}:P{row_index}', [row]): the whole row.
update_row(data, row_index, row) == [data EXCEPT ![row_index - 1] = row]

insert_row_top(data, row) == <<row>> \o data

\* worksheet.append_row(row): below the last row.
append_row(data, row) == Append(data, row)

\* A write call of the export: it succeeds, fails, or is throttled (429) and
\* retried once after the wait, the retry succeeding or failing.
Outcomes == {"ok", "error", "retry_ok", "retry_failed"}
Applied(o) == o \in {"ok", "retry_ok"}

\* The remote store answers a call: with a failure while the run has failures
\* left.  A throttled call and its failed retry are two failures.
Cost(o) == CASE o = "ok" -> 0 [] o = "retry_failed" -> 2 [] OTHER -> 1
Answers(o) == faults + Cost(o) <= MaxFaults /\ faults' = faults + Cost(o)
Succeeds(ok) == Answers(IF ok THEN "ok" ELSE "error")

\* Opening a worksheet and reading all its rows: both succeed, or the first
\* or the second fails.
ReadOutcomes == {"ok", "open_failed", "read_failed"}

\* The timing of a tracked write (lines 690-722, 813-835, 842-862): the
\* request is tracked and issued; request_delay follows a success, the wait
\* of 65 s and the retry follow a throttle response.
TrackedWrite(t, o) ==
    LET issued_at == RemoteCall(track_api_request(t))
    IN  CASE o = "ok" -> Sleep(issued_at, request_delay)
          [] o = "error" -> issued_at
          [] OTHER -> RemoteCall(Sleep(issued_at, retry_delay))

\* ------------------------------------------------------------------- export
\* export_to_google_sheets_with_rate_limiting(scraped_profiles, tags_mapping,
\* target_updates), one step per remote call.

ExportReturns(value) == ret' = value /\ pc' = "x_done"

\* Lines 729-730: with no profiles the export ends after the status updates.
AfterCommits ==
    IF scraped_profiles = << >> THEN ExportReturns(TRUE)
    ELSE pc' = "x_read" /\ ret' = ret

\* Lines 670-680: the guard, get_google_sheets_client and open_by_url.
ExportOpen ==
    /\ pc = "x_open"
    /\ j' = 1 /\ k' = 1 /\ existing_rows' = << >>
    /\ sheet0' = sheet /\ nwrites' = 0 /\ exhausted' = 0
    /\ IF scraped_profiles = << >> /\ target_updates = << >>
       THEN ExportReturns(FALSE) /\ faults' = faults
       ELSE \E ok \in BOOLEAN :
              /\ Succeeds(ok)
              /\ IF ~ok THEN ExportReturns(FALSE)
                 ELSE /\ ret' = ret
                      /\ pc' = IF target_updates # << >> THEN "x_target" ELSE "x_read"
    /\ UNCHANGED <<store, config, timing, run, caller, calls, mainvars>>
    /\ UNCHANGED <<issued, commit_log, stats, written, tags_failed, committed, failed_rows, synced, scrape_log, lost, interrupted>>

\* Lines 683-685 and 726-727: workbook.worksheet("Target"); a failure skips
\* the status updates with a warning.
OpenTargetSheet ==
    /\ pc = "x_target"
    /\ \E ok \in BOOLEAN :
         /\ Succeeds(ok)
         /\ IF ok THEN pc' = "x_commit" /\ ret' = ret ELSE AfterCommits
    /\ Elapse(RemoteCall(Timing))
    /\ UNCHANGED <<store, config, run, caller, calls, mainvars, j, k, existing_rows, history>>

\* Lines 688-722: one status update, B..D of the item's row in one ranged
\* update; a throttled update is retried once, any other failure is logged.
CommitStatus ==
    /\ pc = "x_commit"
    /\ j <= Len(target_updates)
    /\ \E o \in Outcomes :
         LET update == target_updates[j]
         IN  /\ Answers(o)
             /\ Elapse(TrackedWrite(Timing, o))
             /\ queue' = IF Applied(o) THEN update_target_row(queue, update, clock) ELSE queue
             /\ issued' = issued \cup {update.row_index}
             /\ commit_log' = Append(commit_log, update.row_index)
             /\ committed' = IF Applied(o) THEN committed \cup {update.row_index} ELSE committed
             /\ exhausted' = IF o = "retry_failed" THEN exhausted + 1 ELSE exhausted
    /\ j' = j + 1
    /\ IF j = Len(target_updates) THEN AfterCommits ELSE pc' = pc /\ ret' = ret
    /\ UNCHANGED <<sheet_header, sheet, tags_sheet, clock, config, run, caller, calls, mainvars>>
    /\ UNCHANGED <<k, existing_rows, stats, written, tags_failed, failed_rows, synced, scrape_log, lost, interrupted, sheet0, nwrites>>

\* Lines 733-754: workbook.sheet1, then the tracked read of all rows; a
\* failure of either ends the export in its outer handler.
ReadSnapshot ==
    /\ pc = "x_read"
    /\ \E o \in ReadOutcomes :
         /\ Succeeds(o = "ok")
         /\ Elapse(IF o = "open_failed" THEN RemoteCall(Timing)
                   ELSE RemoteCall(track_api_request(RemoteCall(Timing))))
         /\ IF o # "ok" THEN ExportReturns(FALSE) /\ existing_rows' = existing_rows
            ELSE /\ ret' = ret
                 /\ IF ~sheet_header
                    THEN pc' = "x_headers" /\ existing_rows' = << >>
                    ELSE pc' = "x_profile" /\ existing_rows' = ExistingRows(sheet)
    /\ UNCHANGED <<store, config, run, caller, calls, mainvars, j, k, history>>

\* Lines 742-746: the headers are appended to an empty worksheet; a failure
\* ends the export in its outer handler.
AppendHeaders ==
    /\ pc = "x_headers"
    /\ \E ok \in BOOLEAN :
         /\ Succeeds(ok)
         /\ IF ok THEN sheet_header' = TRUE /\ pc' = "x_profile" /\ ret' = ret
            ELSE sheet_header' = sheet_header /\ ExportReturns(FALSE)
    /\ Elapse(RemoteCall(track_api_request(Timing)))
    /\ UNCHANGED <<queue, sheet, tags_sheet, clock, config, run, caller, calls, mainvars>>
    /\ UNCHANGED <<j, k, existing_rows, history>>

\* Lines 760-865: one profile of the batch: the row is built, then updated in
\* place when its nickname is in existing_rows and needs an update, appended
\* when its nickname is not in existing_rows.
ProcessProfile ==
    /\ pc = "x_profile"
    /\ k <= Len(scraped_profiles)
    /\ LET profile == scraped_profiles[k]
           nickname == Strip(profile.NICKNAME)
           row == MakeRow(profile, tags_mapping)
           known == nickname \in DOMAIN existing_rows
           write == /\ nickname # ""
                    /\ known => NeedsUpdate(existing_rows[nickname].data, row)
       IN  IF write
           THEN \E o \in Outcomes :
                  /\ Answers(o)
                  /\ Elapse(TrackedWrite(Timing, o))
                  /\ sheet' = IF ~Applied(o) THEN sheet
                              ELSE IF known
                                   THEN update_row(sheet, existing_rows[nickname].row_index, row)
                                   ELSE append_row(sheet, row)
                  /\ nwrites' = nwrites + 1
                  /\ stats' = CountWrite(stats, known, o)
                  /\ written' = IF ~Applied(o) THEN written
                                ELSE IF known THEN [written EXCEPT !.updated = @ + 1]
                                     ELSE [written EXCEPT !.appended = @ + 1]
                  /\ exhausted' = IF o = "retry_failed" THEN exhausted + 1 ELSE exhausted
                  /\ synced' = IF Applied(o) THEN synced \cup {nickname} ELSE synced
           ELSE /\ UNCHANGED <<sheet, nwrites, exhausted, faults, timing, stats, written>>
                /\ synced' = IF nickname # "" THEN synced \cup {nickname} ELSE synced
    /\ k' = k + 1
    /\ IF k = Len(scraped_profiles) THEN ExportReturns(TRUE) ELSE pc' = pc /\ ret' = ret
    /\ UNCHANGED <<queue, sheet_header, tags_sheet, clock, config, run, caller, calls, mainvars>>
    /\ UNCHANGED <<j, existing_rows, issued, commit_log, tags_failed, committed, failed_rows, scrape_log, lost, interrupted, sheet0>>

Export ==
    \/ ExportOpen
    \/ OpenTargetSheet
    \/ CommitStatus
    \/ ReadSnapshot
    \/ AppendHeaders
    \/ ProcessProfile

\* --------------------------------------------------------------------- main

\* Lines 879-895: browser, login and the Sheets client; a failure returns.
Setup ==
    /\ pc = "start"
    /\ \E ok \in BOOLEAN : pc' = IF ok THEN "tags" ELSE "done"
    /\ UNCHANGED <<store, env, config, timing, run, caller, calls, mainvars, exportvars, history>>

\* The timing of a worksheet that is opened and read without being tracked
\* (lines 629-634, 319-324).
UntrackedRead(t, o) ==
    IF o = "open_failed" THEN RemoteCall(t) ELSE RemoteCall(RemoteCall(t))

GetTagsMappingStale ==
    /\ pc = "tags"
    /\ \E o \in ReadOutcomes :
         /\ Succeeds(o = "ok")
         /\ Elapse(UntrackedRead(Timing, o))
         /\ tags_mapping' = get_tags_mapping(tags_sheet)
         /\ tags_failed' = (o # "ok")
    /\ pc' = "targets"
    /\ UNCHANGED <<store, config, run, caller, calls, target_users, idx, scraped_profiles, target_updates>>
    /\ UNCHANGED <<exportvars, issued, commit_log, stats, written, committed, failed_rows, synced>>
    /\ UNCHANGED <<scrape_log, lost, interrupted, sheet0, nwrites, exhausted>>

\* Line 897: get_tags_mapping; any failure gives the empty mapping.
GetTagsMapping ==
    /\ pc = "tags"
    /\ \E o \in ReadOutcomes :
         /\ Succeeds(o = "ok")
         /\ Elapse(UntrackedRead(Timing, o))
         /\ tags_mapping' = IF o = "ok" THEN get_tags_mapping(tags_sheet) ELSE << >>
         /\ tags_failed' = (o # "ok")
    /\ pc' = "targets"
    /\ UNCHANGED <<store, config, run, caller, calls, target_users, idx, scraped_profiles, target_updates>>
    /\ UNCHANGED <<exportvars, issued, commit_log, stats, written, committed, failed_rows, synced>>
    /\ UNCHANGED <<scrape_log, lost, interrupted, sheet0, nwrites, exhausted>>

\* Lines 899-908: get_target_users; a failure or an empty result returns.
GetTargetUsers ==
    /\ pc = "targets"
    /\ \E o \in ReadOutcomes :
         LET found == IF o = "ok" THEN get_target_users(target_headers, queue) ELSE << >>
         IN  /\ Succeeds(o = "ok")
             /\ Elapse(UntrackedRead(Timing, o))
             /\ target_users' = found
             /\ pc' = IF found = << >> THEN "done" ELSE "scrape"
    /\ idx' = 1
    /\ UNCHANGED <<store, config, run, caller, calls, tags_mapping, scraped_profiles, target_updates>>
    /\ UNCHANGED <<exportvars, history>>

\* Lines 928-932: the status update queued for a scraped item.
CompletedUpdate(row_index) ==
    [row_index |-> row_index, status |-> "Completed",
     notes |-> "Successfully scraped with post data"]

FailedUpdate(row_index) ==
    [row_index |-> row_index, status |-> "Failed",
     notes |-> "Scraping failed - will retry"]

\* Lines 938-942: the status update queued for an item whose scrape failed.
RetryUpdate(row_index) ==
    [row_index |-> row_index, status |-> "Pending",
     notes |-> "Scraping failed - will retry"]

\* Lines 965-967: the delay that ends an iteration of the loop.
Delays == {MIN_DELAY, MAX_DELAY}

\* Lines 946-948 and 965-967: the batch is exported when either list reached
\* batch_size; otherwise the iteration ends with its delay.
AfterScrape(profiles, updates, t) ==
    /\ scraped_profiles' = profiles
    /\ target_updates' = updates
    /\ IF Len(profiles) >= batch_size \/ Len(updates) >= batch_size
       THEN pc' = "x_open" /\ caller' = "loop" /\ idx' = idx /\ Elapse(t)
       ELSE /\ pc' = pc /\ caller' = caller /\ idx' = idx + 1
            /\ \E d \in Delays : Elapse(Sleep(t, d))

\* Lines 913-943: one item of the for loop: scrape_profile returns a profile
\* stamped with the current time, or None.
ScrapeProfile ==
    /\ pc = "scrape"
    /\ idx <= Len(target_users)
    /\ LET nickname == target_users[idx].username
           row_index == target_users[idx].row_index
       IN  /\ scrape_log' = Append(scrape_log, target_users[idx])
           /\ \/ \E profile \in ScrapedProfiles(clock, nickname) :
                   /\ AfterScrape(Append(scraped_profiles, profile),
                                  Append(target_updates, CompletedUpdate(row_index)),
                                  Sleep(Timing, post_delay))
                   /\ failed_rows' = failed_rows
              \/ /\ AfterScrape(scraped_profiles,
                                Append(target_updates, RetryUpdate(row_index)),
                                Timing)
                 /\ failed_rows' = failed_rows \cup {row_index}
    /\ UNCHANGED <<store, env, config, run, calls, tags_mapping, target_users>>
    /\ UNCHANGED <<exportvars, issued, commit_log, stats, written, tags_failed, committed, synced, lost, interrupted, sheet0, nwrites, exhausted>>

BatchPauseSkips ==
    /\ pc = "x_done" /\ caller = "loop"
    /\ scraped_profiles' = << >>
    /\ target_updates' = << >>
    /\ idx' = idx + 2
    /\ pc' = "scrape"
    /\ \E d \in Delays : Elapse(Sleep(Sleep(Timing, batch_pause), d))
    /\ UNCHANGED <<store, env, config, run, caller, calls, tags_mapping, target_users>>
    /\ UNCHANGED <<exportvars, issued, commit_log, stats, written, tags_failed, committed, failed_rows, synced, scrape_log, lost, interrupted, sheet0, nwrites, exhausted>>

\* Lines 949-953 and 965-967: back from the export in the loop: both lists
\* are cleared, the pause between batches and the delay of the iteration.
BatchPause ==
    /\ pc = "x_done" /\ caller = "loop"
    /\ scraped_profiles' = << >>
    /\ target_updates' = << >>
    /\ idx' = idx + 1
    /\ pc' = "scrape"
    /\ \E d \in Delays : Elapse(Sleep(Sleep(Timing, batch_pause), d))
    /\ UNCHANGED <<store, env, config, run, caller, calls, tags_mapping, target_users>>
    /\ UNCHANGED <<exportvars, issued, commit_log, stats, written, tags_failed, committed, failed_rows, synced, scrape_log, lost, interrupted, sheet0, nwrites, exhausted>>

\* Lines 969-972: after the loop, what is left is exported.
FinalExport ==
    /\ pc = "scrape"
    /\ idx > Len(target_users)
    /\ IF scraped_profiles # << >> \/ target_updates # << >>
       THEN pc' = "x_open" /\ caller' = "final"
       ELSE pc' = "done" /\ caller' = caller
    /\ UNCHANGED <<store, env, config, timing, run, calls, mainvars, exportvars, history>>

\* Lines 974-996: back from the last export: the summary, and the end.
Finish ==
    /\ pc = "x_done" /\ caller = "final"
    /\ pc' = "done"
    /\ UNCHANGED <<store, env, config, timing, run, caller, calls, mainvars, exportvars, history>>

\* Lines 882, 889, 895, 903 and 998-999: main returns on every path and the
\* module ends with the bare call main(): the process ends with status 0.
exit_status == 0

\* The process stops between two remote calls: it is killed, or interrupted
\* (lines 987-988); nothing more is written.
Stop ==
    /\ pc \notin {"done", "stopped"}
    /\ pc' = "stopped"
    /\ UNCHANGED <<store, env, config, timing, run, caller, calls, mainvars, exportvars, history>>

\* An interrupt arrives while scrape_profile is inside one of its try blocks
\* with a bare except (lines 492-497, 510-529, 535-541, 551-557, 563-567, and
\* 407-440 in scrape_recent_post): the KeyboardInterrupt is caught there, the
\* field keeps its default and the run goes on.
AbsorbInterrupt ==
    /\ pc = "scrape"
    /\ idx <= Len(target_users)
    /\ ~interrupted
    /\ interrupted' = TRUE
    /\ UNCHANGED <<store, env, config, timing, control, mainvars, exportvars>>
    /\ UNCHANGED <<issued, commit_log, stats, written, tags_failed, committed, failed_rows, synced, scrape_log, lost, sheet0, nwrites, exhausted>>

\* The next run of the process: nothing is kept in memory.
Restart ==
    /\ pc \in {"done", "stopped"}
    /\ run < MaxRuns
    /\ run' = run + 1
    /\ clock' = clock + 1
    /\ faults' = 0
    /\ pc' = "start"
    /\ caller' = "loop"
    /\ tags_mapping' = << >> /\ target_users' = << >> /\ idx' = 1
    /\ scraped_profiles' = << >> /\ target_updates' = << >>
    /\ j' = 1 /\ k' = 1 /\ existing_rows' = << >> /\ ret' = FALSE
    /\ lost' = {target_users[i].row_index : i \in 1..Len(target_users)} \ issued
    /\ interrupted' = FALSE
    /\ issued' = {} /\ commit_log' = << >> /\ committed' = {}
    /\ stats' = ScraperStats /\ written' = [appended |-> 0, updated |-> 0] /\ tags_failed' = FALSE /\ failed_rows' = {} /\ synced' = {}
    /\ scrape_log' = << >> /\ sheet0' = << >> /\ nwrites' = 0 /\ exhausted' = 0
    /\ Elapse([Timing EXCEPT !.log = << >>])
    /\ UNCHANGED <<queue, sheet_header, sheet, tags_sheet, config, calls>>

\* ------------------------------------------------------------ specification

\* The Target worksheet before a run: seeded rows, the last one possibly
\* handled by an earlier run; the same username may be seeded twice.
InitQueues ==
    {[i \in 1..MaxQueue |->
        IF i = 1 THEN TargetRow("a", "PENDING", "", "")
        ELSE IF i = 2 THEN TargetRow(second, "PENDING", "", "")
        ELSE IF i = 3 THEN TargetRow("c", "PENDING", "", "")
        ELSE last] :
        second \in {"a", "b"},
        last \in {TargetRow("a", "PENDING", "", ""), TargetRow("b", "Completed", "1", "")}}

\* scraper.py runs: no earlier revision does.
NoRevision ==
    /\ revision = "scraper.py"
    /\ online_users = << >> /\ current = 1 /\ scraped = << >>
    /\ profiles_batch = << >> /\ final = FALSE /\ exports = << >>
    /\ count_header = FALSE /\ count_sheet = << >> /\ existing_nicks = << >> /\ position = 1

\* The main worksheet before a run: empty, or the headers and the rows of
\* earlier runs.
StoredRow(n, city, followers, tags) ==
    [DATE |-> 1, NICKNAME |-> n, TAGS |-> tags, CITY |-> city,
     FOLLOWERS |-> followers, PIMAGE |-> "", INTRO |-> ""]

InitSheets ==
    {<<FALSE, << >> >>,
     <<TRUE, <<StoredRow("a", "Lahore", "100", "")>> >>,
     <<TRUE, <<StoredRow("a", "Lahore", "120", "(star) Followers")>> >>}

InitMemory ==
    /\ caller = "loop" /\ calls = 0
    /\ tags_mapping = << >> /\ target_users = << >> /\ idx = 1
    /\ scraped_profiles = << >> /\ target_updates = << >>
    /\ j = 1 /\ k = 1 /\ existing_rows = << >> /\ ret = FALSE
    /\ stats = ScraperStats /\ written = [appended |-> 0, updated |-> 0] /\ tags_failed = FALSE
    /\ issued = {} /\ commit_log = << >> /\ committed = {} /\ failed_rows = {} /\ synced = {}
    /\ scrape_log = << >> /\ lost = {} /\ interrupted = FALSE /\ sheet0 = << >> /\ nwrites = 0
    /\ exhausted = 0

\* A run observed without its clock, with the limit as shipped.
Untimed ==
    /\ limit = max_requests_per_minute /\ timed = FALSE
    /\ now = 0 /\ api_requests = << >> /\ call_times = << >> /\ untracked = 0
    /\ target_headers = TargetHeaders /\ format_calls = {}
    /\ NoRevision

\* One run of the process.
Init ==
    /\ queue \in InitQueues
    /\ \E s \in InitSheets : sheet_header = s[1] /\ sheet = s[2]
    /\ tags_sheet = FollowerTags
    /\ clock = 1
    /\ faults = 0
    /\ run = 1
    /\ pc = "start"
    /\ InitMemory
    /\ Untimed

Run ==
    \/ Setup
    \/ GetTagsMapping
    \/ GetTargetUsers
    \/ ScrapeProfile
    \/ BatchPause
    \/ FinalExport
    \/ Finish
    \/ Export

Next == Run \/ Stop

Spec == Init /\ [][Next]_vars

\* One run that is not stopped from outside: the process keeps taking steps.
FairSpec == Spec /\ WF_vars(Run)

\* A run and the runs after it, over a queue of three pending rows.
InitRerun ==
    /\ queue = [i \in 1..3 |->
                  TargetRow(<<"a", "b", "c">>[i], "PENDING", <<"", "", "1">>[i], "")]
    /\ sheet_header = FALSE
    /\ sheet = << >>
    /\ tags_sheet = FollowerTags
    /\ clock = 1
    /\ faults = 0
    /\ run = 1
    /\ pc = "start"
    /\ InitMemory
    /\ Untimed

NextRerun == Run \/ Stop \/ Restart

SpecRerun == InitRerun /\ [][NextRerun]_vars

\* One run in which an interrupt can be caught inside scrape_profile.
NextInterrupt == Next \/ AbsorbInterrupt

SpecInterrupt == Init /\ [][NextInterrupt]_vars

\* One run observed with its clock, the limit configured between 2 and
\* MaxLimit.
InitRate ==
    /\ queue = [i \in 1..4 |-> TargetRow(<<"a", "b", "c", "a">>[i], "PENDING", "", "")]
    /\ sheet_header = FALSE
    /\ sheet = << >>
    /\ tags_sheet = FollowerTags
    /\ clock = 1
    /\ faults = 0
    /\ run = 1
    /\ pc = "start"
    /\ InitMemory
    /\ limit \in 2..MaxLimit /\ timed = TRUE
    /\ now = 0 /\ api_requests = << >> /\ call_times = << >> /\ untracked = 0
    /\ target_headers = TargetHeaders /\ format_calls = {}
    /\ NoRevision

SpecRate == InitRate /\ [][Next]_vars

\* ------------------------------------------------------------ load harness
\* get_target_users called on its own on a Target worksheet whose cells are
\* typed by hand.

LoadHeaders ==
    {<<"USERNAME", "STATUS">>, <<"Target Username", "Status">>, <<"Name", "STATUS">>}
LoadUsernames == {"a", " a", "b", "", " "}
LoadStatuses == {"PENDING", " PENDING", "pending ", "Pending", "Completed", "Done", ""}
LoadRows == {TargetRow(u, st, "", "") : u \in LoadUsernames, st \in LoadStatuses}

InitLoad ==
    /\ queue \in UNION {[1..n -> LoadRows] : n \in 0..MaxRows}
    /\ sheet_header = FALSE
    /\ sheet = << >>
    /\ tags_sheet = EmptyTags
    /\ clock = 1
    /\ faults = 0
    /\ run = 1
    /\ pc = "targets"
    /\ InitMemory
    /\ limit = max_requests_per_minute /\ timed = FALSE
    /\ now = 0 /\ api_requests = << >> /\ call_times = << >> /\ untracked = 0
    /\ target_headers \in LoadHeaders /\ format_calls = {}
    /\ NoRevision

SpecLoad == InitLoad /\ [][GetTargetUsers]_vars

\* -------------------------------------------------------- earlier revisions
\* main.py, github_scraper.py, DD-Online-Optimized.py and dd_scraper.py scrape
\* the users that are online and export them in batches counted by number;
\* the first three keep a seen count (SCOUNT, column 15) for each nickname.

\* The number of profiles of a batch in each revision.
main_batch == 10
github_batch == 5
optimized_batch == 5
dd_batch == 10

BatchOf(file) ==
    CASE file = "main.py" -> main_batch
      [] file = "github_scraper.py" -> github_batch
      [] file = "DD-Online-Optimized.py" -> optimized_batch
      [] file = "dd_scraper.py" -> dd_batch

SeenCountRevisions == {"main.py", "github_scraper.py", "DD-Online-Optimized.py"}
Revisions == SeenCountRevisions \cup {"dd_scraper.py"}

\* The profile scraped for the user at place p of the list; DATE stands for
\* its capture time.
OnlineProfile(p) == [DATE |-> p, NICKNAME |-> online_users[p]]

FirstProfiles(profiles, n) == SubSeq(profiles, 1, n)

\* profiles[-n:] for 0 < n <= len(profiles).
LastProfiles(profiles, n) == SubSeq(profiles, Len(profiles) - n + 1, Len(profiles))

\* The row of a profile: its columns and "1", the initial seen count.
CountRow(profile) ==
    [DATE |-> profile.DATE, NICKNAME |-> profile.NICKNAME, SCOUNT |-> "1"]

\* int(text) for the decimal numerals of the model; str(n) is ToString(n).
ParseInt(text) == CHOOSE n \in 0..(MaxUsers + 4) : ToString(n) = text

\* worksheet.col_values(3): the column down to its last cell that is not blank.
RECURSIVE DropTrailingBlanks(_)
DropTrailingBlanks(cells) ==
    IF cells = << >> THEN << >>
    ELSE IF cells[Len(cells)] = "" THEN DropTrailingBlanks(SubSeq(cells, 1, Len(cells) - 1))
    ELSE cells

\* The nicknames the export reads: row[2] of every data row (main.py and
\* github_scraper.py), col_values(3)[1:] (DD-Online-Optimized.py).
ReadNicks(file, data) ==
    LET column == [r \in 1..Len(data) |-> data[r].NICKNAME]
    IN  IF file = "DD-Online-Optimized.py" THEN DropTrailingBlanks(column) ELSE column

\* existing_nicks.index(nickname): the first place, counted from 0.
IndexOf(nicks, nickname) ==
    (CHOOSE p \in 1..Len(nicks) :
        nicks[p] = nickname /\ \A q \in 1..(p - 1) : nicks[q] # nickname) - 1

SeenRowIndexNoHeader(nicks, nickname) == IndexOf(nicks, nickname) + 1

\* row_index = existing_nicks.index(nickname) + 2
SeenRowIndex(nicks, nickname) == IndexOf(nicks, nickname) + 2

\* worksheet.cell(row_index, 15).value or "0"
CellCount(data, row_index) ==
    IF row_index - 1 \in DOMAIN data /\ data[row_index - 1].SCOUNT # ""
    THEN data[row_index - 1].SCOUNT ELSE "0"

\* worksheet.update_cell(row_index, 15, new_count); a cell of the header row
\* or below the data is outside the data rows the model keeps.
update_cell(data, row_index, new_count) ==
    IF row_index - 1 \in DOMAIN data
    THEN [data EXCEPT ![row_index - 1].SCOUNT = new_count]
    ELSE data

\* Everything but the position and the state of the earlier revisions.
core == <<store, env, limit, timed, target_headers, format_calls, timing,
          run, caller, calls, mainvars, exportvars, history>>

\* The export is called with a batch.
CallExport(batch, last) ==
    /\ profiles_batch' = batch
    /\ exports' = Append(exports, batch)
    /\ final' = last
    /\ pc' = IF revision = "dd_scraper.py" THEN "r_rows" ELSE "r_open"

\* The export returns to main.
ExportEnds == pc' = IF final THEN "r_done" ELSE "r_scrape"

\* One turn of the loop of main: the user is scraped, and a profile that
\* makes the number of profiles a multiple of the batch size starts the
\* export of the last batch.
ScrapeOnline ==
    /\ pc = "r_scrape"
    /\ current <= Len(online_users)
    /\ current' = current + 1
    /\ \E found \in BOOLEAN :
         IF found
         THEN /\ scraped' = Append(scraped, OnlineProfile(current))
              /\ IF Len(scraped') % BatchOf(revision) = 0
                 THEN CallExport(LastProfiles(scraped', BatchOf(revision)), FALSE)
                 ELSE UNCHANGED <<pc, profiles_batch, exports, final>>
         ELSE UNCHANGED <<pc, scraped, profiles_batch, exports, final>>
    /\ UNCHANGED <<core, revision, online_users, count_header, count_sheet, existing_nicks, position>>

\* After the loop: the profiles left over from the last whole batch.
ExportRemaining ==
    /\ pc = "r_scrape"
    /\ current > Len(online_users)
    /\ LET remaining == Len(scraped) % BatchOf(revision)
       IN  IF remaining > 0
           THEN CallExport(LastProfiles(scraped, remaining), TRUE)
           ELSE pc' = "r_done" /\ UNCHANGED <<profiles_batch, exports, final>>
    /\ UNCHANGED <<core, revision, online_users, current, scraped>>
    /\ UNCHANGED <<count_header, count_sheet, existing_nicks, position>>

\* dd_scraper.py, export_to_google_sheets: the rows of the batch are appended
\* in one call.
AppendRows ==
    /\ pc = "r_rows"
    /\ count_sheet' = count_sheet \o [p \in 1..Len(profiles_batch) |-> CountRow(profiles_batch[p])]
    /\ ExportEnds
    /\ UNCHANGED <<core, revision, online_users, current, scraped, profiles_batch, final, exports>>
    /\ UNCHANGED <<count_header, existing_nicks, position>>

\* The seen-count exports: the headers are appended to an empty worksheet and
\* the nicknames of the data rows are read.
OpenCountSheet ==
    /\ pc = "r_open"
    /\ count_header' = TRUE
    /\ existing_nicks' = IF ~count_header THEN << >> ELSE ReadNicks(revision, count_sheet)
    /\ position' = 1
    /\ pc' = "r_profile"
    /\ UNCHANGED <<core, revision, online_users, current, scraped, profiles_batch, final, exports>>
    /\ UNCHANGED count_sheet

\* The seen-count exports, one profile: the seen count of a known nickname
\* is raised in its row, the row of a new nickname is appended.
ExportProfile ==
    /\ pc = "r_profile"
    /\ position <= Len(profiles_batch)
    /\ LET profile == profiles_batch[position]
           nickname == profile.NICKNAME
           known == \E p \in 1..Len(existing_nicks) : existing_nicks[p] = nickname
       IN  IF nickname = "" THEN UNCHANGED <<count_sheet, existing_nicks>>
           ELSE IF known
           THEN LET row_index == SeenRowIndex(existing_nicks, nickname)
                    current_count == CellCount(count_sheet, row_index)
                    new_count == ToString(ParseInt(current_count) + 1)
                IN  /\ count_sheet' = update_cell(count_sheet, row_index, new_count)
                    /\ existing_nicks' = existing_nicks
           ELSE /\ count_sheet' = Append(count_sheet, CountRow(profile))
                /\ existing_nicks' = Append(existing_nicks, nickname)
    /\ position' = position + 1
    /\ IF position = Len(profiles_batch) THEN ExportEnds ELSE pc' = pc
    /\ UNCHANGED <<core, revision, online_users, current, scraped, profiles_batch, final, exports>>
    /\ UNCHANGED count_header

\* The worksheet before a run of an earlier revision: empty, or the headers
\* and the rows earlier runs left.
SeenRow(nickname, count) == [DATE |-> 0, NICKNAME |-> nickname, SCOUNT |-> count]
CountSheets ==
    {<<FALSE, << >> >>,
     <<TRUE, <<SeenRow("u2", "1")>> >>,
     <<TRUE, <<SeenRow("u3", "2"), SeenRow("u1", "")>> >>}

\* One run of an earlier revision; the users online are distinct.
InitBatch ==
    /\ queue = << >>
    /\ sheet_header = FALSE
    /\ sheet = << >>
    /\ tags_sheet = EmptyTags
    /\ clock = 1
    /\ faults = 0
    /\ run = 1
    /\ pc = "r_scrape"
    /\ InitMemory
    /\ limit = max_requests_per_minute /\ timed = FALSE
    /\ now = 0 /\ api_requests = << >> /\ call_times = << >> /\ untracked = 0
    /\ target_headers = TargetHeaders /\ format_calls = {}
    /\ revision \in Revisions
    /\ online_users = [p \in 1..MaxUsers |-> "u" \o ToString(p)]
    /\ current = 1 /\ scraped = << >>
    /\ profiles_batch = << >> /\ final = FALSE /\ exports = << >>
    /\ \E s \in CountSheets : count_header = s[1] /\ count_sheet = s[2]
    /\ existing_nicks = << >> /\ position = 1

NextBatch == ScrapeOnline \/ ExportRemaining \/ AppendRows \/ OpenCountSheet \/ ExportProfile

SpecBatch == InitBatch /\ [][NextBatch]_vars

\* A seen-count export called on its own with a batch, and called again.
CountProfiles == {[DATE |-> t, NICKNAME |-> n] : t \in 1..MaxTime, n \in {"u1", "u2"}}

InitCount ==
    /\ queue = << >>
    /\ sheet_header = FALSE
    /\ sheet = << >>
    /\ tags_sheet = EmptyTags
    /\ clock = 1
    /\ faults = 0
    /\ run = 1
    /\ pc = "r_open"
    /\ InitMemory
    /\ limit = max_requests_per_minute /\ timed = FALSE
    /\ now = 0 /\ api_requests = << >> /\ call_times = << >> /\ untracked = 0
    /\ target_headers = TargetHeaders /\ format_calls = {}
    /\ revision \in SeenCountRevisions
    /\ online_users = << >> /\ current = 1 /\ scraped = << >>
    /\ profiles_batch \in UNION {[1..n -> CountProfiles] : n \in 1..MaxBatch}
    /\ final = TRUE /\ exports = <<profiles_batch>>
    /\ \E s \in CountSheets : count_header = s[1] /\ count_sheet = s[2]
    /\ existing_nicks = << >> /\ position = 1

ExportAgain ==
    /\ pc = "r_done"
    /\ Len(exports) < 2
    /\ exports' = Append(exports, profiles_batch)
    /\ pc' = "r_open"
    /\ UNCHANGED <<core, revision, online_users, current, scraped, profiles_batch, final>>
    /\ UNCHANGED <<count_header, count_sheet, existing_nicks, position>>

NextCount == OpenCountSheet \/ ExportProfile \/ ExportAgain

SpecCount == InitCount /\ [][NextCount]_vars

\* ------------------------------------------------------------ tags harness
\* get_tags_mapping called on its own on a Tags worksheet of two columns whose
\* cells are typed by hand; a data row may be one cell short.

TagHeaders == {"Followers", " Followers", "Custom", "", " "}
TagCells == {"", "a", " a", "b"}
TagRows == {<<x>> : x \in TagCells} \cup {<<x, y>> : x \in TagCells, y \in TagCells}
TagSheets ==
    {<< >>} \cup
    {<<<<g, h>>>> \o rows :
        g \in TagHeaders, h \in TagHeaders, rows \in UNION {[1..n -> TagRows] : n \in 0..MaxTagRows}}

InitTags ==
    /\ queue = << >>
    /\ sheet_header = FALSE
    /\ sheet = << >>
    /\ tags_sheet \in TagSheets
    /\ clock = 1
    /\ faults = 0
    /\ run = 1
    /\ pc = "tags"
    /\ InitMemory
    /\ Untimed

SpecTags == InitTags /\ [][GetTagsMapping]_vars

\* --------------------------------------------------------- limiter harness
\* track_api_request called on its own: a request is tracked and its call
\* issued when track_api_request returns; the caller may wait before the
\* next request.

InitLimiter ==
    /\ queue = << >>
    /\ sheet_header = FALSE
    /\ sheet = << >>
    /\ tags_sheet = EmptyTags
    /\ clock = 1
    /\ faults = 0
    /\ run = 1
    /\ pc = "l_request"
    /\ InitMemory
    /\ limit \in 2..MaxLimit /\ timed = TRUE
    /\ now = 0 /\ api_requests = << >> /\ call_times = << >> /\ untracked = 0
    /\ target_headers = TargetHeaders /\ format_calls = {}
    /\ NoRevision

TrackedCall ==
    /\ pc \in {"l_request", "l_issued"}
    /\ calls < MaxCalls
    /\ calls' = calls + 1
    /\ pc' = "l_issued"
    /\ Elapse(RemoteCall(track_api_request(Timing)))
    /\ UNCHANGED <<store, env, config, run, caller, mainvars, exportvars, history>>

Gaps == {MIN_DELAY, MAX_DELAY, window}

Wait ==
    /\ pc = "l_issued"
    /\ pc' = "l_request"
    /\ \E d \in Gaps : Elapse(Sleep(Timing, d))
    /\ UNCHANGED <<store, env, config, run, caller, calls, mainvars, exportvars, history>>

NextLimiter == TrackedCall \/ Wait

SpecLimiter == InitLimiter /\ [][NextLimiter]_vars

\* ----------------------------------------------------------------- harness
\* The export called on its own, twice with the same batch and the same tags
\* mapping and no status updates.

ReconNames == {"a", "b"}
ReconValues == {<<"Lahore", "100">>, <<"", "120">>, <<"", "100">>}
ReconProfiles ==
    {Profile(t, n, v[1], v[2]) : t \in 1..MaxTime, n \in ReconNames, v \in ReconValues}

Batches == UNION {[1..n -> ReconProfiles] : n \in 1..MaxBatch}

ReconSheets ==
    {<<FALSE, << >> >>,
     <<TRUE, << >> >>,
     <<TRUE, <<StoredRow("a", "Lahore", "100", "")>> >>,
     <<TRUE, <<StoredRow("b", "Lahore", "100", ""), StoredRow("a", "Lahore", "100", "")>> >>}

InitRecon ==
    /\ queue = << >>
    /\ \E s \in ReconSheets : sheet_header = s[1] /\ sheet = s[2]
    /\ tags_sheet \in TagMaps
    /\ clock = MaxTime
    /\ faults = 0
    /\ run = 1
    /\ pc = "x_open"
    /\ caller = "harness" /\ calls = 1
    /\ tags_mapping = get_tags_mapping(tags_sheet) /\ target_users = << >> /\ idx = 1
    /\ scraped_profiles \in Batches /\ target_updates = << >>
    /\ j = 1 /\ k = 1 /\ existing_rows = << >> /\ ret = FALSE
    /\ stats = ScraperStats /\ written = [appended |-> 0, updated |-> 0] /\ tags_failed = FALSE
    /\ issued = {} /\ commit_log = << >> /\ committed = {} /\ failed_rows = {} /\ synced = {}
    /\ scrape_log = << >> /\ lost = {} /\ interrupted = FALSE /\ sheet0 = << >> /\ nwrites = 0
    /\ exhausted = 0
    /\ Untimed

\* The second call, with the batch and the mapping of the first.
CallAgain ==
    /\ pc = "x_done" /\ caller = "harness"
    /\ calls < 2
    /\ calls' = calls + 1
    /\ pc' = "x_open"
    /\ UNCHANGED <<store, env, config, timing, run, caller, mainvars, exportvars, history>>

NextRecon ==
    \/ ExportOpen
    \/ ReadSnapshot
    \/ AppendHeaders
    \/ ProcessProfile
    \/ CallAgain

SpecRecon == InitRecon /\ [][NextRecon]_vars

\* ------------------------------------------------------------- diff harness
\* The export called on its own with one profile of nickname a, against a
\* worksheet that holds a with a picture and an intro, or against an empty
\* worksheet.

DiffStored ==
    [StoredRow("a", "Lahore", "100", "") EXCEPT !.PIMAGE = "p1", !.INTRO = "bio1"]

DiffProfiles ==
    {[Profile(t, "a", city, followers) EXCEPT !.PIMAGE = pimage, !.INTRO = intro] :
        t \in 1..MaxTime, city \in {"Lahore", ""}, followers \in {"100", "120"},
        pimage \in {"p1", "p2"}, intro \in {"bio1", " bio1", "bio2", "none", ""}}

InitDiff ==
    /\ queue = << >>
    /\ \E s \in {<<FALSE, << >> >>, <<TRUE, <<DiffStored>> >>} :
          sheet_header = s[1] /\ sheet = s[2]
    /\ tags_sheet = EmptyTags
    /\ clock = MaxTime
    /\ faults = 0
    /\ run = 1
    /\ pc = "x_open"
    /\ caller = "harness" /\ calls = 1
    /\ tags_mapping = get_tags_mapping(tags_sheet) /\ target_users = << >> /\ idx = 1
    /\ \E profile \in DiffProfiles : scraped_profiles = <<profile>>
    /\ target_updates = << >>
    /\ j = 1 /\ k = 1 /\ existing_rows = << >> /\ ret = FALSE
    /\ stats = ScraperStats /\ written = [appended |-> 0, updated |-> 0] /\ tags_failed = FALSE
    /\ issued = {} /\ commit_log = << >> /\ committed = {} /\ failed_rows = {} /\ synced = {}
    /\ scrape_log = << >> /\ lost = {} /\ interrupted = FALSE /\ sheet0 = << >> /\ nwrites = 0
    /\ exhausted = 0
    /\ Untimed

SpecDiff == InitDiff /\ [][NextRecon]_vars

\* --------------------------------------------------------------- properties

Rows(items) == {items[i].row_index : i \in 1..Len(items)}
QueueStatus(row_index) == Upper(Strip(queue[row_index - 1].status))
Returned(row_index) ==
    \E i \in 1..Len(get_target_users(target_headers, queue)) : get_target_users(target_headers, queue)[i].row_index = row_index

\* The columns of a Record that carry attribute values.
AttributeColumns == {"CITY", "FOLLOWERS", "PIMAGE", "INTRO"}

\* C1 (as claimed): after a batch, a column whose scraped value is empty and
\* whose stored value was not empty still holds the stored value.
C1_NoErase ==
    (pc = "x_done" /\ ret) =>
        \A i \in 1..Len(scraped_profiles) :
            LET profile == scraped_profiles[i]
                nickname == Strip(profile.NICKNAME)
                stored == ExistingRows(sheet0)
            IN  nickname \in DOMAIN stored =>
                    \A f \in AttributeColumns :
                        (profile[f] = "" /\ stored[nickname].data[f] # "") =>
                            sheet[stored[nickname].row_index - 1][f] = stored[nickname].data[f]

\* C2 (as claimed): when the export fails for a batch, no item of the batch
\* has left PENDING in the Target worksheet.
C2_FailedBatchLeftPending ==
    (pc = "x_done" /\ ~ret) =>
        \A i \in 1..Len(target_updates) : QueueStatus(target_updates[i].row_index) = "PENDING"

\* C3 (as claimed): an item loaded by this run is COMPLETED in the Target
\* worksheet only when its Record was written to the main worksheet or found
\* unchanged there.
C3_CommitAfterWrite ==
    \A i \in 1..Len(target_users) :
        QueueStatus(target_users[i].row_index) = "COMPLETED" =>
            target_users[i].username \in synced

\* C4: while the status write of a loaded item has not been issued, its row
\* is PENDING and get_target_users returns it; the rows a stopped run left
\* without a status write are loaded again by the next run.
C4_AtLeastOnce ==
    /\ \A i \in 1..Len(target_users) :
           target_users[i].row_index \notin issued =>
               /\ QueueStatus(target_users[i].row_index) = "PENDING"
               /\ Returned(target_users[i].row_index)
    /\ target_users # << >> => lost \subseteq Rows(target_users)

C4_Witness ==
    /\ run = 2 /\ pc = "scrape"
    /\ lost # {} /\ lost \subseteq Rows(target_users)
    /\ \E r \in 1..Len(queue) : Upper(queue[r].status) = "COMPLETED"

\* C5 (as claimed): a second export of the same batch, after a first one in
\* which no call failed, issues no row update and no row append.
C5_Idempotent ==
    (pc = "x_done" /\ calls = 2 /\ faults = 0) => nwrites = 0

\* C6 (as claimed): every nickname is in at most one row of the main
\* worksheet.
C6_UniqueIdentifiers ==
    faults = 0 =>
        \A i, m \in 1..Len(sheet) :
            i # m => Strip(sheet[i].NICKNAME) # Strip(sheet[m].NICKNAME)

C11_BlocksUntilOldestLeaves ==
    [][(calls' = calls + 1 /\ pc' = "l_issued") =>
        LET recent == Recent(api_requests, now)
        IN  IF Len(recent) >= limit
            THEN /\ now' = recent[1] + window
                 /\ api_requests' = Append(Tail(recent), now')
            ELSE /\ now' = now
                 /\ api_requests' = Append(recent, now)]_vars

\* C11 (amended): a request that brings the log to the limit of entries
\* within the window is issued retry_delay after it was made, with the log
\* emptied; any other request is issued at once and logged.  The call is
\* issued at the time track_api_request returns.
C11_PausesAtLimit ==
    [][(calls' = calls + 1 /\ pc' = "l_issued") =>
        LET recent == Recent(api_requests, now)
        IN  /\ call_times' = Append(CallsInWindow(call_times, now'), now')
            /\ IF Len(recent) + 1 >= limit
               THEN now' = now + retry_delay /\ api_requests' = << >>
               ELSE now' = now /\ api_requests' = Append(recent, now)]_vars

\* Limit 2, requests at 0 s and 1 s: the first call was issued at 0 s, the
\* second 65 s after its request, and the third follows it at once.
C11_Witness ==
    /\ pc = "l_issued" /\ limit = 2 /\ calls = 3
    /\ now = MIN_DELAY + retry_delay
    /\ call_times = <<now, now>>
    /\ api_requests = <<now>>

\* C12 (as claimed): when a throttled call of an export failed again on its
\* retry, the export does not end with success: the failure reaches its
\* caller.
C12_QuotaExhaustedSurfaces ==
    (pc = "x_done" /\ exhausted > 0) => ~ret

\* The spellings of a status cell that read PENDING, and the usernames that
\* are not empty, with what is left of them when trimmed.
PendingSpellings == {"PENDING", " PENDING", "pending ", "Pending"}
Trimmed == [u \in {"a", " a", "b"} |-> IF u = "b" THEN "b" ELSE "a"]
PendingRows ==
    {i \in 1..Len(queue) : /\ queue[i].username \in DOMAIN Trimmed
                           /\ queue[i].status \in PendingSpellings}

\* C13: loaded from a Target worksheet with its USERNAME and STATUS headers,
\* target_users holds one entry for each row with a username and a status
\* that reads PENDING, and no other; the entries are in ascending row order
\* and carry the trimmed username and the 1-based sheet row (data row i is
\* sheet row i + 1).
C13_LoadPending ==
    (/\ pc \in {"scrape", "done"} /\ faults = 0
     /\ target_headers \in {<<"USERNAME", "STATUS">>, <<"Target Username", "Status">>}) =>
        /\ Rows(target_users) = {i + 1 : i \in PendingRows}
        /\ Len(target_users) = Cardinality(PendingRows)
        /\ \A m \in 1..Len(target_users) :
               /\ target_users[m].username = Trimmed[queue[target_users[m].row_index - 1].username]
               /\ m > 1 => target_users[m - 1].row_index < target_users[m].row_index

\* Sheet rows 2 and 3: a row that is Completed is skipped and the row below
\* it, typed " a" and "pending ", is returned as a in sheet row 3.
C13_Witness ==
    /\ pc = "scrape" /\ Len(queue) = 2
    /\ queue[1].status = "Completed" /\ queue[2].status = "pending "
    /\ queue[2].username = " a"
    /\ target_headers = <<"Target Username", "Status">>
    /\ target_users = <<[username |-> "a", row_index |-> 3, status |-> "PENDING"]>>

\* C14 (as claimed): in one run no username is handed to scrape_profile
\* twice, and of the PENDING rows of one username only the first has a status
\* update issued.
C14_FirstOccurrenceOnly ==
    /\ \A i, m \in 1..Len(scrape_log) :
           i # m => scrape_log[i].username # scrape_log[m].username
    /\ \A r1, r2 \in issued :
           r1 < r2 => Strip(queue[r1 - 1].username) # Strip(queue[r2 - 1].username)

\* C15: when a profile whose nickname is in existing_rows has every compared
\* column empty or equal to the stored one and its tag string equal to the
\* stored one, its step of the export issues no remote call and leaves the
\* worksheet as it is, whatever the capture stamps are.
C15_NoWriteWhenUnchanged ==
    [][(pc = "x_profile" /\ k' = k + 1) =>
        LET profile == scraped_profiles[k]
            nickname == Strip(profile.NICKNAME)
            tags == get_tags_for_nickname(nickname, tags_mapping)
        IN  (/\ nickname \in DOMAIN existing_rows
             /\ \A f \in {"CITY", "FOLLOWERS"} :
                    profile[f] \in {"", existing_rows[nickname].data[f]}
             /\ clean_text(profile.INTRO) \in {"", existing_rows[nickname].data.INTRO}
             /\ tags = existing_rows[nickname].data.TAGS) =>
                /\ sheet' = sheet /\ nwrites' = nwrites
                /\ faults' = faults /\ exhausted' = exhausted]_vars

\* Stored: a in Lahore with 100 followers, captured at 1.  The batch holds a
\* with no city and 100 followers, captured at MaxTime: nothing was written.
C15_Witness ==
    /\ pc = "x_done" /\ ret /\ calls = 1 /\ nwrites = 0
    /\ Len(scraped_profiles) = 1
    /\ scraped_profiles[1] = Profile(MaxTime, "a", "", "100")
    /\ Len(sheet) >= 1
    /\ sheet[Len(sheet)].NICKNAME = "a" /\ sheet[Len(sheet)].CITY = "Lahore"
    /\ sheet[Len(sheet)].DATE < MaxTime

\* C16: no step adds or deletes a row of the Target worksheet or changes a
\* username; the worksheet changes only in a status update, and then only in
\* the status, timestamp and note of the row at the update's row_index.
C16_QueueFrame ==
    [][/\ Len(queue') = Len(queue)
       /\ \A i \in 1..Len(queue) : queue'[i].username = queue[i].username
       /\ queue' # queue =>
              /\ pc = "x_commit" /\ j <= Len(target_updates)
              /\ \A i \in 1..Len(queue) :
                     i + 1 # target_updates[j].row_index => queue'[i] = queue[i]]_vars

\* The status update of sheet row 3 was applied after the one of row 2 failed:
\* row 3 is Completed between two rows that are still PENDING.
C16_Witness ==
    /\ pc = "x_commit" /\ j = 3
    /\ committed = {3}
    /\ <<queue[1].status, queue[2].status, queue[3].status>> = <<"PENDING", "Completed", "PENDING">>
    /\ <<queue[1].username, queue[2].username, queue[3].username>> = <<"a", "b", "c">>

\* C17 (as claimed): the process ends with a status other than 0 exactly when
\* its setup failed (browser, login or Sheets client, or the Target worksheet
\* could not be opened or read).
C17_NonZeroIffSetupFails ==
    [][(pc # "done" /\ pc' = "done") =>
        ((exit_status # 0) <=>
            \/ pc = "start"
            \/ pc = "targets" /\ faults' > faults)]_vars

\* C18 (as claimed): once an interrupt has arrived while a batch was being
\* accumulated, the run writes to neither worksheet, and the items of the
\* batch are PENDING and returned by get_target_users.
C18_InterruptDiscardsBatch ==
    /\ [][interrupted => queue' = queue /\ sheet' = sheet /\ sheet_header' = sheet_header]_vars
    /\ [](interrupted =>
            \A i \in 1..Len(target_updates) :
                /\ QueueStatus(target_updates[i].row_index) = "PENDING"
                /\ Returned(target_updates[i].row_index))

\* The last profile of the batch with the nickname of profile i.
LastOf(batch, i) ==
    CHOOSE m \in i..Len(batch) :
        /\ Strip(batch[m].NICKNAME) = Strip(batch[i].NICKNAME)
        /\ \A q \in (m + 1)..Len(batch) : Strip(batch[q].NICKNAME) # Strip(batch[i].NICKNAME)

\* C19 (as claimed): after an export in which no call failed, every nickname
\* of the batch has exactly one row in the main worksheet, and that row
\* carries the compared values of the last profile of the nickname in the
\* batch (where that profile has a value).
C19_LastInBatchWins ==
    (pc = "x_done" /\ ret /\ faults = 0 /\ calls = 1) =>
        \A i \in 1..Len(scraped_profiles) :
            LET nickname == Strip(scraped_profiles[i].NICKNAME)
                last == scraped_profiles[LastOf(scraped_profiles, i)]
                rows == {r \in 1..Len(sheet) : Strip(sheet[r].NICKNAME) = nickname}
            IN  /\ Cardinality(rows) = 1
                /\ \A r \in rows : \A f \in {"CITY", "FOLLOWERS"} :
                       last[f] # "" => sheet[r][f] = last[f]

\* C20 (as claimed): every remote call of a timed run is preceded by exactly
\* one track_api_request.
C20_EveryCallTracked ==
    timed => untracked = 0

\* The step of the export that handles a profile whose nickname is stored,
\* with the profile and the stored row agreeing on city, followers and tags.
OnlyUncomparedDiffer ==
    /\ pc = "x_profile" /\ k <= Len(scraped_profiles)
    /\ Strip(scraped_profiles[k].NICKNAME) \in DOMAIN existing_rows
    /\ LET stored == existing_rows[Strip(scraped_profiles[k].NICKNAME)].data
       IN  /\ scraped_profiles[k].CITY = stored.CITY
           /\ scraped_profiles[k].FOLLOWERS = stored.FOLLOWERS
           /\ get_tags_for_nickname(Strip(scraped_profiles[k].NICKNAME), tags_mapping) = stored.TAGS

\* C21 (as claimed): a profile that differs from its stored row in picture
\* or intro only causes no remote write.
C21_ExcludedColumnsNoWrite ==
    [][(OnlyUncomparedDiffer /\ k' = k + 1) =>
        (sheet' = sheet /\ nwrites' = nwrites /\ faults' = faults)]_vars

\* C21 (amended): a profile that differs from its stored row in picture (or
\* profile link) only causes no remote write; one whose intro, cleaned, is
\* not empty and differs from the stored intro has its row updated.
C21_IntroTriggersUpdate ==
    [][(OnlyUncomparedDiffer /\ k' = k + 1) =>
        LET stored == existing_rows[Strip(scraped_profiles[k].NICKNAME)].data
            intro == clean_text(scraped_profiles[k].INTRO)
        IN  IF intro \in {"", stored.INTRO}
            THEN sheet' = sheet /\ nwrites' = nwrites /\ faults' = faults
            ELSE nwrites' = nwrites + 1]_vars

\* The profile differs from the stored row in its picture (and its capture
\* stamp) only, and the export ended without a write.
C21_Witness ==
    /\ pc = "x_done" /\ ret /\ calls = 1 /\ nwrites = 0
    /\ sheet = <<DiffStored>>
    /\ scraped_profiles[1].PIMAGE = "p2" /\ scraped_profiles[1].INTRO = " bio1"
    /\ scraped_profiles[1].CITY = "Lahore" /\ scraped_profiles[1].FOLLOWERS = "100"

\* The columns in which the row built for a profile differs from the stored
\* row (the capture stamp aside).
ChangedColumns(stored, row) ==
    {f \in {"TAGS", "CITY", "FOLLOWERS", "PIMAGE", "INTRO"} : row[f] # stored[f]}

\* The step of the export that updates the row of a stored nickname.
UpdatesStoredRow ==
    /\ pc = "x_profile" /\ k <= Len(scraped_profiles)
    /\ Strip(scraped_profiles[k].NICKNAME) \in DOMAIN existing_rows
    /\ NeedsUpdate(existing_rows[Strip(scraped_profiles[k].NICKNAME)].data,
                   MakeRow(scraped_profiles[k], tags_mapping))

\* C22: every row the export decides to update gets one update of the full
\* row and one highlight call for each column whose value changed, and for no
\* other column.
C22_UpdateThenHighlightChanged ==
    [][(UpdatesStoredRow /\ k' = k + 1) =>
        LET nickname == Strip(scraped_profiles[k].NICKNAME)
            row_index == existing_rows[nickname].row_index
        IN  /\ nwrites' = nwrites + 1
            /\ format_calls' = format_calls \cup
                  {<<row_index, f>> :
                     f \in ChangedColumns(existing_rows[nickname].data,
                                          MakeRow(scraped_profiles[k], tags_mapping))}]_vars

\* The number of status writes issued for a Target row in this run.
CommitsOf(row_index) ==
    Cardinality({i \in 1..Len(commit_log) : commit_log[i] = row_index})

\* C23: no loaded item has two status writes, and when the run has ended
\* normally every loaded item has had its one status write.
C23_ExactlyOneCommit ==
    \A i \in 1..Len(target_users) :
        /\ CommitsOf(target_users[i].row_index) <= 1
        /\ pc = "done" => CommitsOf(target_users[i].row_index) = 1

\* C24: every row update of the export targets a sheet row below the header
\* that holds, when the update is issued, the nickname of the row written,
\* rows appended earlier in the same batch included.
C24_RowIndexConsistent ==
    [][(UpdatesStoredRow /\ k' = k + 1) =>
        LET nickname == Strip(scraped_profiles[k].NICKNAME)
            row_index == existing_rows[nickname].row_index
        IN  /\ row_index >= 2
            /\ row_index - 1 \in DOMAIN sheet
            /\ Strip(sheet[row_index - 1].NICKNAME) = nickname
            /\ \A i \in DOMAIN sheet :
                   i # row_index - 1 => sheet'[i] = sheet[i]
            /\ Strip(sheet'[row_index - 1].NICKNAME) = nickname]_vars

\* The row of b was appended and then, in the same batch, the row of a was
\* updated in place at sheet row 2.
C24_Witness ==
    /\ pc = "x_done" /\ ret /\ calls = 1 /\ nwrites = 2
    /\ Len(sheet0) = 1 /\ Len(sheet) = 2
    /\ sheet0[1].NICKNAME = "a" /\ sheet0[1].FOLLOWERS = "100"
    /\ sheet[1].NICKNAME = "a" /\ sheet[1].FOLLOWERS = "120"
    /\ sheet[2].NICKNAME = "b"
    /\ scraped_profiles[1].NICKNAME = "b"

\* C25: when the run has ended, the counters of the summary equal the number
\* of rows appended to and the number of rows updated in the main worksheet
\* during the run, writes that succeeded on the retry included.
C25_SummaryCountsWrites ==
    pc = "done" =>
        /\ stats.new_profiles = written.appended
        /\ stats.updated_profiles = written.updated

\* C26: when get_tags_mapping fails the mapping is empty and the run goes on
\* to load the queue; the loaded items are all handed to scrape_profile, and
\* every row the run writes carries the empty tag string.
C26_TagsFailureContinues ==
    /\ [](tags_failed => tags_mapping = << >>)
    /\ [][(pc = "tags" /\ tags_failed') => pc' = "targets"]_vars
    /\ [](tags_failed /\ pc = "done" => scrape_log = target_users)
    /\ [][(tags_failed /\ pc = "x_profile" /\ sheet' # sheet) =>
            \E i \in DOMAIN sheet' :
                /\ sheet'[i].NICKNAME = Strip(scraped_profiles[k].NICKNAME)
                /\ sheet'[i].TAGS = ""
                /\ \A m \in DOMAIN sheet : m # i => sheet'[m] = sheet[m]]_vars

\* The Tags worksheet tags a, its read failed, and the run ended after
\* writing the row of a without tags.
C26_Witness ==
    /\ tags_failed /\ pc = "done" /\ tags_sheet # << >>
    /\ target_users # << >> /\ scrape_log = target_users
    /\ written.appended + written.updated >= 1
    /\ \E i \in DOMAIN sheet : sheet[i].NICKNAME = "a" /\ sheet[i].TAGS = ""

\* The display name of a header: its entry in TAGS_CONFIG, or the header
\* behind the default icon.
TagLabel(header) ==
    CASE Strip(header) = "Following" -> "(link) Following"
      [] Strip(header) = "Followers" -> "(star) Followers"
      [] Strip(header) = "Bookmark" -> "(book) Bookmark"
      [] Strip(header) = "Pending" -> "(hourglass) Pending"
      [] OTHER -> "(plug) " \o Strip(header)

\* The cells <<column, row>> of the Tags worksheet that name a nickname under
\* a header that is not blank.
TagCellsOf(nickname) ==
    IF tags_sheet = << >> THEN {}
    ELSE {cell \in (1..Len(tags_sheet[1])) \X (2..Len(tags_sheet)) :
            /\ Strip(tags_sheet[1][cell[1]]) # ""
            /\ cell[1] <= Len(tags_sheet[cell[2]])
            /\ Strip(tags_sheet[cell[2]][cell[1]]) = nickname}

\* The place of a cell among the cells of its nickname: by column, and by
\* row within a column.
TagRank(nickname, cell) ==
    1 + Cardinality({d \in TagCellsOf(nickname) :
                        d[1] < cell[1] \/ (d[1] = cell[1] /\ d[2] < cell[2])})

\* C27: the mapping get_tags_mapping built holds exactly the nicknames that
\* occur in a cell under a header that is not blank, and for each of them one
\* label per such cell, in column order, the label being the display name of
\* the column's header.
C27_TagsMappingBuilt ==
    (pc = "targets" /\ ~tags_failed) =>
        /\ DOMAIN tags_mapping = {n \in {"a", "b", "c"} : TagCellsOf(n) # {}}
        /\ \A n \in DOMAIN tags_mapping :
               /\ Len(tags_mapping[n]) = Cardinality(TagCellsOf(n))
               /\ \A cell \in TagCellsOf(n) :
                      tags_mapping[n][TagRank(n, cell)] = TagLabel(tags_sheet[1][cell[1]])

\* Headers " Followers" and "Custom"; a is named twice in the first column
\* and once in the second, b once in the second.
C27_Witness ==
    /\ pc = "targets" /\ ~tags_failed
    /\ tags_sheet = <<<<" Followers", "Custom">>, <<"a", "a">>, <<" a", "b">>>>
    /\ tags_mapping["a"] = <<"(star) Followers", "(star) Followers", "(plug) Custom">>
    /\ tags_mapping["b"] = <<"(plug) Custom">>

\* C28: the status update applied to a row of the Target worksheet leaves
\* its timestamp cell filled when the status written is Completed and empty
\* when it is any other status, whatever the cell held before.
C28_TimestampIffCompleted ==
    [][(pc = "x_commit" /\ committed' # committed) =>
        LET update == target_updates[j]
            r == update.row_index - 1
        IN  /\ queue'[r].status = update.status
            /\ queue'[r].last_scraped # "" <=> Upper(update.status) = "COMPLETED"]_vars

\* Row 4 held the timestamp of an earlier cycle and was PENDING: its scrape
\* failed and the Pending update emptied the cell, while row 2 was Completed
\* with a timestamp.
C28_Witness ==
    /\ {2, 4} \subseteq committed
    /\ queue[3].status = "Pending" /\ queue[3].last_scraped = ""
    /\ queue[1].status = "Completed" /\ queue[1].last_scraped # ""

\* The profiles of the export calls so far, one call after the other.
RECURSIVE Exported(_)
Exported(batches) ==
    IF batches = << >> THEN << >> ELSE batches[1] \o Exported(Tail(batches))

\* C29: in the revisions that batch by count, no export call receives more
\* profiles than the batch size, the profiles exported so far are the first
\* profiles scraped, in scrape order and once each, and when main has ended
\* they are all the profiles scraped.
C29_BatchesPartitionScraped ==
    revision \in Revisions =>
        /\ \A b \in 1..Len(exports) :
               Len(exports[b]) >= 1 /\ Len(exports[b]) <= BatchOf(revision)
        /\ Len(Exported(exports)) <= Len(scraped)
        /\ Exported(exports) = SubSeq(scraped, 1, Len(Exported(exports)))
        /\ pc = "r_done" => Exported(exports) = scraped

\* main.py scraped eleven users: a batch of ten was exported in the loop and
\* the eleventh profile after it.
C29_Witness ==
    /\ revision = "main.py" /\ pc = "r_done"
    /\ Len(scraped) = 11 /\ Len(exports) = 2
    /\ Len(exports[1]) = 10 /\ Len(exports[2]) = 1
    /\ exports[2][1] = scraped[11]

\* The row the export reads as the row of a nickname: the first data row
\* that holds it.
RowOfNick(nickname) ==
    CHOOSE r \in 1..Len(count_sheet) :
        count_sheet[r].NICKNAME = nickname /\ \A q \in 1..(r - 1) : count_sheet[q].NICKNAME # nickname

\* The number a seen-count cell stands for; a blank cell stands for 0.
SeenCount(cell) == IF cell = "" THEN 0 ELSE ParseInt(cell)

\* C30: in the seen-count revisions the export of a profile whose nickname
\* is in the worksheet appends no row and raises the SCOUNT of the row of the
\* nickname by 1, leaving every other cell; the export of a profile whose
\* nickname is not in the worksheet appends one row with SCOUNT 1.
C30_SeenCount ==
    [][(pc = "r_profile" /\ position' = position + 1) =>
        LET nickname == profiles_batch[position].NICKNAME
        IN  IF \E r \in 1..Len(count_sheet) : count_sheet[r].NICKNAME = nickname
            THEN /\ Len(count_sheet') = Len(count_sheet)
                 /\ SeenCount(count_sheet'[RowOfNick(nickname)].SCOUNT) =
                        SeenCount(count_sheet[RowOfNick(nickname)].SCOUNT) + 1
                 /\ \A r \in 1..Len(count_sheet) :
                        /\ count_sheet'[r].NICKNAME = count_sheet[r].NICKNAME
                        /\ count_sheet'[r].DATE = count_sheet[r].DATE
                        /\ r # RowOfNick(nickname) => count_sheet'[r] = count_sheet[r]
            ELSE /\ Len(count_sheet') = Len(count_sheet) + 1
                 /\ SubSeq(count_sheet', 1, Len(count_sheet)) = count_sheet
                 /\ count_sheet'[Len(count_sheet')].NICKNAME = nickname
                 /\ count_sheet'[Len(count_sheet')].SCOUNT = "1"]_vars

\* The worksheet held u2 with SCOUNT 1; the batch u1, u1 was exported twice:
\* u1 has one row, appended below u2, and has been seen four times.
C30_Witness ==
    /\ pc = "r_done" /\ Len(exports) = 2
    /\ Len(profiles_batch) = 2
    /\ profiles_batch[1].NICKNAME = "u1" /\ profiles_batch[2].NICKNAME = "u1"
    /\ Len(count_sheet) = 2
    /\ count_sheet[1].NICKNAME = "u2" /\ count_sheet[1].SCOUNT = "1"
    /\ count_sheet[2].NICKNAME = "u1" /\ count_sheet[2].SCOUNT = "4"

\* C8 (as claimed): the row of an item whose scrape failed is committed with
\* status FAILED and a note, and get_target_users returns it no more.
C8_FailedScrapeMarkedFailed ==
    \A r \in committed \cap failed_rows :
        /\ QueueStatus(r) = "FAILED"
        /\ queue[r - 1].notes # ""
        /\ ~Returned(r)

\* C8 (amended): a committed item whose scrape failed has status Pending, an
\* empty timestamp and the note "Scraping failed - will retry", and
\* get_target_users returns it again; a committed item that was scraped has
\* status Completed and a timestamp, and is returned no more.
C8_FailedScrapeStaysPending ==
    \A r \in committed :
        IF r \in failed_rows
        THEN /\ queue[r - 1].status = "Pending"
             /\ queue[r - 1].last_scraped = ""
             /\ queue[r - 1].notes = "Scraping failed - will retry"
             /\ Returned(r)
        ELSE /\ queue[r - 1].status = "Completed"
             /\ queue[r - 1].last_scraped # ""
             /\ queue[r - 1].notes # ""
             /\ ~Returned(r)

\* Queue a, b, c: the scrape of b failed and one export committed all three.
C8_Witness ==
    /\ pc = "x_done"
    /\ Len(target_updates) = 3
    /\ <<queue[1].username, queue[2].username, queue[3].username>> = <<"a", "b", "c">>
    /\ committed = {2, 3, 4} /\ failed_rows = {3}
    /\ <<queue[1].status, queue[2].status, queue[3].status>> = <<"Completed", "Pending", "Completed">>

\* The rows of the batch's new Records: the Records whose nickname is not in
\* the worksheet the export found, in batch order.
RECURSIVE NewRows(_, _, _)
NewRows(batch, stored, mapping) ==
    IF batch = << >> THEN << >>
    ELSE LET nickname == Strip(Head(batch).NICKNAME)
             rest == NewRows(Tail(batch), stored, mapping)
         IN  IF nickname # "" /\ nickname \notin DOMAIN stored
             THEN <<MakeRow(Head(batch), mapping)>> \o rest
             ELSE rest

RECURSIVE IsSubSeq(_, _)
IsSubSeq(a, b) ==
    IF a = << >> THEN TRUE
    ELSE IF b = << >> THEN FALSE
    ELSE IF Head(a) = Head(b) THEN IsSubSeq(Tail(a), Tail(b))
    ELSE IsSubSeq(a, Tail(b))

\* Identifier order, case-insensitive.
NameRank(n) == CASE n = "a" -> 1 [] n = "b" -> 2 [] n = "c" -> 3 [] OTHER -> 4

\* Capture time descending, then identifier ascending.
SortedBefore(r1, r2) ==
    \/ r1.DATE > r2.DATE
    \/ r1.DATE = r2.DATE /\ NameRank(r1.NICKNAME) <= NameRank(r2.NICKNAME)

\* C9 (as claimed): after an export in which no call failed, the rows of the
\* new Records are the block directly below the header, newest first, and
\* the rows that were there are shifted down by the size of the block.
C9_NewestFirstBelowHeader ==
    (pc = "x_done" /\ ret /\ faults = 0) =>
        LET new == NewRows(scraped_profiles, ExistingRows(sheet0), tags_mapping)
            n == Len(new)
        IN  /\ Len(sheet) = Len(sheet0) + n
            /\ \A i \in 1..n : \E m \in 1..n : sheet[i] = new[m]
            /\ \A i \in 1..(n - 1) : SortedBefore(sheet[i], sheet[i + 1])
            /\ \A i \in 1..Len(sheet0) : sheet[n + i].NICKNAME = sheet0[i].NICKNAME

\* C9 (amended): the rows of the new Records are appended below the last
\* row, in batch order, one for each append that succeeded, and no row that
\* was there moves; when no call failed every new Record has its row.
C9_AppendedInBatchOrder ==
    pc \in {"x_profile", "x_done"} =>
        LET new == NewRows(scraped_profiles, ExistingRows(sheet0), tags_mapping)
            added == SubSeq(sheet, Len(sheet0) + 1, Len(sheet))
        IN  /\ Len(sheet) >= Len(sheet0)
            /\ \A i \in 1..Len(sheet0) : sheet[i].NICKNAME = sheet0[i].NICKNAME
            /\ IsSubSeq(added, new)
            /\ (pc = "x_done" /\ ret /\ faults = 0) => added = new

\* Two new Records were appended below a stored row, the one captured later
\* below the one captured earlier.
C9_Witness ==
    /\ pc = "x_done" /\ ret /\ calls = 1
    /\ Len(sheet0) >= 1
    /\ Len(sheet) = Len(sheet0) + 2
    /\ sheet[Len(sheet)].DATE > sheet[Len(sheet) - 1].DATE

\* C10: a run that is not stopped from outside ends, and when it ends the
\* loaded items have been handed to scrape_profile once each, in row order.
C10_ForwardProgress ==
    /\ [](pc = "done" /\ target_users # << >> => scrape_log = target_users)
    /\ <>(pc \in {"done", "stopped"})

\* A run over four items ended although a scrape and MaxFaults remote calls
\* failed.
C10_Witness ==
    /\ pc = "done"
    /\ Len(scrape_log) = 4 /\ scrape_log = target_users
    /\ failed_rows # {} /\ faults = MaxFaults

====
